---------------------------- MODULE Spec2Model ----------------------------
(***************************************************************************)
(* leandvbtx: the DVB-S modulator application of leansdr.                  *)
(*                                                                         *)
(* Four specifications share the definitions of this module:              *)
(*   SpecMain    main(): the option loop, then run(cfg) up to the call of  *)
(*               sch.run() (pipeline assembly).                            *)
(*   Spec        run(cfg) from the assembled pipeline on: sch.run(), the   *)
(*               scheduler's scans over the stages, sch.shutdown().        *)
(*   SpecInterp  one interpolator<T> between two buffers, with a writer    *)
(*               feeding its input and a reader draining its output.       *)
(*   SpecReplay  SpecInterp run twice on the same input.                   *)
(* FairSpec is Spec with weak fairness of the scheduler's steps.           *)
(*                                                                         *)
(* src/src/apps/leandvbtx.cc is the only source file; pipebuf, pipereader, *)
(* pipewriter, scheduler and the library stages (leansdr/framework.h,      *)
(* dsp.h, dvb.h, ...) are modelled from the specification's sections 4.1   *)
(* and 4.2.                                                                *)
(***************************************************************************)
EXTENDS Integers, Sequences, FiniteSets, TLC

VARIABLES
  pc,           \* where the program is: "main", "usage_ok", "usage_err",
                \* "run", "sch_run", "running", "returned", "done", "fatal"
                \* ("off" in the interpolator harness)
  cfg,          \* struct config
  argn,         \* options consumed by main's loop so far
  fseen,        \* what sscanf made of the argument of each -f option so
                \* far, oldest first
  pipes,        \* buffer name -> [cap, count, total_written, total_read]
  stages,       \* the scheduler's runnables, in registration order
  agcset,       \* r_agc's settings (out_rms, bw), {} when there is no AGC
  cur,          \* index of the stage the current scan is at
  progressed,   \* some stage of the current scan made progress
  shutdownReq,  \* an external shutdown request was made
  remaining,    \* packets the source (stdin) has not delivered yet
  delivered,    \* samples the sink (stdout) accepted so far
  sinkRefused,  \* the sink has refused a write at least once
  hd,           \* interpolator::d
  hin,          \* the interpolator's input buffer
  hout,         \* the interpolator's output buffer
  hinData,      \* storage of the input buffer, slot -> element
  houtData,     \* storage of the output buffer, slot -> element
  ipc,          \* position inside interpolator::run: "idle", "loop", "read",
                \* "written", "bug"
  loc,          \* interpolator::run's locals and what it observed
  feed,         \* the input sequence of the harness
  fed,          \* how many elements of feed the writer has committed
  sunk,         \* the sequence the reader took out of the output buffer
  runNo,        \* 1 for the first run, 2 for the replay
  firstOut      \* the first run when the replay starts: what it delivered,
                \* whether it ran to the end, its largest count

appVars == <<pc, cfg, argn, fseen, pipes, stages, agcset, cur, progressed,
             shutdownReq, remaining, delivered, sinkRefused>>
harnessVars == <<hd, hin, hout, hinData, houtData, ipc, loc, feed, fed, sunk,
                 runNo, firstOut>>
vars == <<pc, cfg, argn, fseen, pipes, stages, agcset, cur, progressed,
          shutdownReq, remaining, delivered, sinkRefused, hd, hin, hout,
          hinData, houtData, ipc, loc, feed, fed, sunk, runNo, firstOut>>

-----------------------------------------------------------------------------
(* Bounds of the model *)

MaxArgs == 2        \* options on the command line
MaxFactor == 2      \* small interpolation / decimation factors tried
MaxPackets == 2     \* TS packets on stdin
MaxD == 2           \* interpolator::d of the harness
MaxCap == 4         \* capacity of the harness's buffers
MaxInput == 2       \* length of the harness's input sequence

(* Program constants *)

BUF_PACKETS == 12
BUF_BASEBAND == 4096
SIZE_RSPACKET == 204      \* bytes of a (204,188) Reed-Solomon packet
SYMBOLS_PER_BYTE == 8     \* rate 1/2, two coded bits per QPSK symbol
BUF_BYTES == SIZE_RSPACKET * 12
BUF_SYMBOLS == BUF_BYTES * 8

Min(a, b) == IF a <= b THEN a ELSE b

NoPipe == "none"

-----------------------------------------------------------------------------
(* struct config and main()'s option loop *)

config ==
  [power |-> 0, agc |-> FALSE, interp |-> 2, decim |-> 1, rolloff |-> 35,
   verbose |-> FALSE, debug |-> FALSE]

\* Values a "%d" of -f can parse: invalid ones, small ones, and the first
\* one larger than the baseband buffers.
FactorArgs == ((-1) .. MaxFactor) \cup {BUF_BASEBAND + 1}

\* Values of --roll-off, in hundredths: outside (0,1] and inside.
RolloffArgs == {0, 35, 100, 150}

\* Values of --power, in dB.
PowerArgs == {0, 6}

\* sscanf(argv[i], "%d/%d", &cfg.interp, &cfg.decim): the number of
\* conversions n and the values converted.  n < 1: nothing was parsed.
ScanResults ==
  [n : {0}, interp : {0}, decim : {0}]
    \cup [n : {1}, interp : FactorArgs, decim : {0}]
    \cup [n : {2}, interp : FactorArgs, decim : FactorArgs]

\* lines 176-177 without cfg.decim = 1
OptFNoReset(c, sc) ==
  LET c2 == IF sc.n >= 1 THEN [c EXCEPT !.interp = sc.interp] ELSE c
  IN  IF sc.n >= 2 THEN [c2 EXCEPT !.decim = sc.decim] ELSE c2

\* The -f branch: cfg.decim = 1, then sscanf stores what it converted.
OptF(c, sc) ==
  LET c1 == [c EXCEPT !.decim = 1]
      c2 == IF sc.n >= 1 THEN [c1 EXCEPT !.interp = sc.interp] ELSE c1
  IN  IF sc.n >= 2 THEN [c2 EXCEPT !.decim = sc.decim] ELSE c2

ValidConfig(c) ==
  c.interp >= 1 /\ c.decim >= 1 /\ c.rolloff > 0 /\ c.rolloff <= 100

-----------------------------------------------------------------------------
(* Buffers (pipebuf with its pipereader and pipewriter) *)

pipebuf(size) ==
  [cap |-> size, count |-> 0, total_written |-> 0, total_read |-> 0]

readable(b) == b.count
writable(b) == b.cap - b.count

read(b, n) ==
  [b EXCEPT !.count = @ - n, !.total_read = @ + n]

written(b, n) ==
  [b EXCEPT !.count = @ + n, !.total_written = @ + n]

-----------------------------------------------------------------------------
(* interpolator<T>::run, line 29: the number of input elements of one call *)

\* line 29 asking for one free slot more than the output needs
InterpCountShort(r, w, d) == Min(r, IF w > 0 THEN (w - 1) \div d ELSE 0)

\* line 29 with the room rounded up instead of down
InterpCountCeil(r, w, d) == Min(r, (w + d - 1) \div d)

InterpCountNoRoom(r, w, d) == r

InterpCount(r, w, d) == Min(r, w \div d)

-----------------------------------------------------------------------------
(* run(cfg): pipeline assembly *)

runnable(name, in, out, d) == [name |-> name, in |-> in, out |-> out, d |-> d]

\* line 121: the factor r_decim is constructed with
DecimatorByInterp(c) == c.interp

DecimatorD(c) == c.decim

\* lines 123-135: the buffer `tail` points to when the sink is constructed
tailResampled(c) == "resampled"

tail(c) == IF c.agc THEN "AGC" ELSE "resampled"

AssemblePipes(c) ==
  LET base == [n \in {"TS packets", "rand TS packets", "RS-enc packets",
                      "mpegbytes", "symbols", "IQ symbols", "interpolated",
                      "resampled"} |->
                 CASE n \in {"TS packets", "rand TS packets",
                             "RS-enc packets"} -> pipebuf(BUF_PACKETS)
                   [] n = "mpegbytes" -> pipebuf(BUF_BYTES)
                   [] n \in {"symbols", "IQ symbols"} -> pipebuf(BUF_SYMBOLS)
                   [] OTHER -> pipebuf(BUF_BASEBAND)]
  IN  IF c.agc
      THEN [n \in DOMAIN base \cup {"AGC"} |->
              IF n = "AGC" THEN pipebuf(BUF_BASEBAND) ELSE base[n]]
      ELSE base

AssembleStages(c) ==
  LET head == << runnable("file_reader", NoPipe, "TS packets", 1),
                 runnable("randomizer", "TS packets", "rand TS packets", 1),
                 runnable("rs_encoder", "rand TS packets", "RS-enc packets", 1),
                 runnable("interleaver", "RS-enc packets", "mpegbytes", 1),
                 runnable("dvb_convol", "mpegbytes", "symbols", 1),
                 runnable("cstln_transmitter", "symbols", "IQ symbols", 1),
                 runnable("fir_resampler", "IQ symbols", "interpolated",
                          c.interp),
                 runnable("decimator", "interpolated", "resampled",
                          DecimatorD(c)) >>
      agc  == IF c.agc
              THEN << runnable("simple_agc", "resampled", "AGC", 1) >>
              ELSE << >>
  IN  head \o agc \o << runnable("file_writer", tail(c), NoPipe, 1) >>

\* r_agc->out_rms = cfg.power / sqrtf(interp/decim) and
\* r_agc->bw = 0.001 * cfg.decim / cfg.interp, kept as exact fractions:
\* bw = bw_num / bw_den, out_rms^2 = power^2 * decim / interp.
AssembleAgc(c) ==
  IF c.agc
  THEN {[power |-> c.power, rms2_num |-> c.decim, rms2_den |-> c.interp,
         bw_num |-> c.decim, bw_den |-> 1000 * c.interp]}
  ELSE {}


-----------------------------------------------------------------------------
(* The harness variables while the application runs, and the application's
   while the harness runs *)

\* interpolator::run's locals before its first call: count, the offsets of
\* pin and pout from in.rd() and out.wr(), the readable() and writable() it
\* saw, and the largest count of the calls so far.
NoRun ==
  [count |-> 0, pin |-> 0, pout |-> 0, obsR |-> 0, obsW |-> 0, maxCount |-> 0]

HarnessIdle ==
  /\ hd = 1
  /\ hin = pipebuf(1)
  /\ hout = pipebuf(1)
  /\ hinData = << >>
  /\ houtData = << >>
  /\ ipc = "idle"
  /\ loc = NoRun
  /\ feed = << >>
  /\ fed = 0
  /\ sunk = << >>
  /\ runNo = 1
  /\ firstOut = [out |-> << >>, done |-> FALSE, maxCount |-> 0]

AppIdle ==
  /\ pc = "off"
  /\ cfg = config
  /\ argn = 0
  /\ fseen = << >>
  /\ pipes = << >>
  /\ stages = << >>
  /\ agcset = {}
  /\ cur = 0
  /\ progressed = FALSE
  /\ shutdownReq = FALSE
  /\ remaining = 0
  /\ delivered = 0
  /\ sinkRefused = FALSE

-----------------------------------------------------------------------------
(* main() *)

pipelineVars == <<pipes, stages, agcset, cur, progressed, shutdownReq,
                  remaining, delivered, sinkRefused>>

MainInit ==
  /\ pc = "main"
  /\ cfg = config
  /\ argn = 0
  /\ fseen = << >>
  /\ pipes = << >>
  /\ stages = << >>
  /\ agcset = {}
  /\ cur = 0
  /\ progressed = FALSE
  /\ shutdownReq = FALSE
  /\ remaining = 0
  /\ delivered = 0
  /\ sinkRefused = FALSE
  /\ HarnessIdle

MoreArgs == pc = "main" /\ argn < MaxArgs

\* -h: usage(argv[0], stdout, 0)
OptHelp ==
  /\ MoreArgs
  /\ pc' = "usage_ok"
  /\ argn' = argn + 1
  /\ fseen' = fseen
  /\ UNCHANGED <<cfg, pipelineVars, harnessVars>>

OptVerbose ==
  /\ MoreArgs
  /\ cfg' = [cfg EXCEPT !.verbose = TRUE]
  /\ argn' = argn + 1
  /\ fseen' = fseen
  /\ UNCHANGED <<pc, pipelineVars, harnessVars>>

OptDebug ==
  /\ MoreArgs
  /\ cfg' = [cfg EXCEPT !.debug = TRUE]
  /\ argn' = argn + 1
  /\ fseen' = fseen
  /\ UNCHANGED <<pc, pipelineVars, harnessVars>>

\* -f INTERP[/DECIM]
OptFreq ==
  /\ MoreArgs
  /\ \E sc \in ScanResults :
       /\ cfg' = OptF(cfg, sc)
       /\ pc' = IF sc.n < 1 THEN "usage_err" ELSE pc
       /\ fseen' = Append(fseen, sc)
  /\ argn' = argn + 1
  /\ UNCHANGED <<pipelineVars, harnessVars>>

OptRolloff ==
  /\ MoreArgs
  /\ \E r \in RolloffArgs : cfg' = [cfg EXCEPT !.rolloff = r]
  /\ argn' = argn + 1
  /\ fseen' = fseen
  /\ UNCHANGED <<pc, pipelineVars, harnessVars>>

OptPower ==
  /\ MoreArgs
  /\ \E p \in PowerArgs : cfg' = [cfg EXCEPT !.power = p]
  /\ argn' = argn + 1
  /\ fseen' = fseen
  /\ UNCHANGED <<pc, pipelineVars, harnessVars>>

OptAgc ==
  /\ MoreArgs
  /\ cfg' = [cfg EXCEPT !.agc = TRUE]
  /\ argn' = argn + 1
  /\ fseen' = fseen
  /\ UNCHANGED <<pc, pipelineVars, harnessVars>>

\* any other argument, or an option whose value is missing:
\* usage(argv[0], stderr, 1)
OptBad ==
  /\ MoreArgs
  /\ pc' = "usage_err"
  /\ argn' = argn + 1
  /\ fseen' = fseen
  /\ UNCHANGED <<cfg, pipelineVars, harnessVars>>

\* the loop ends: run(cfg) is called
CallRun ==
  /\ pc = "main"
  /\ pc' = "run"
  /\ UNCHANGED <<cfg, argn, fseen, pipelineVars, harnessVars>>

-----------------------------------------------------------------------------
(* run(cfg) *)

\* lines 58-140: the scheduler, the buffers and the stages are constructed
Assemble ==
  /\ pc = "run"
  /\ pipes' = AssemblePipes(cfg)
  /\ stages' = AssembleStages(cfg)
  /\ agcset' = AssembleAgc(cfg)
  /\ pc' = "sch_run"
  /\ UNCHANGED <<cfg, argn, fseen, cur, progressed, shutdownReq, remaining,
                 delivered, sinkRefused, harnessVars>>

\* line 142: sch.run() is entered
SchRun ==
  /\ pc = "sch_run"
  /\ pc' = "running"
  /\ cur' = 1
  /\ progressed' = FALSE
  /\ UNCHANGED <<cfg, argn, fseen, pipes, stages, agcset, shutdownReq,
                 remaining, delivered, sinkRefused, harnessVars>>

\* line 143: sch.shutdown(), after sch.run() returned
SchShutdown ==
  /\ pc = "returned"
  /\ pc' = "done"
  /\ UNCHANGED <<cfg, argn, fseen, pipelineVars, harnessVars>>

-----------------------------------------------------------------------------
(* The stages' steps and the scheduler's loop *)

\* Elements a stage takes from its input and puts in its output per unit of
\* work.
InUnit(s) == IF s.name = "decimator" THEN s.d ELSE 1

OutUnit(s) ==
  CASE s.name = "interleaver" -> SIZE_RSPACKET
    [] s.name = "dvb_convol" -> SYMBOLS_PER_BYTE
    [] s.name = "fir_resampler" -> s.d
    [] OTHER -> 1

IsSource(s) == s.in = NoPipe
IsSink(s) == s.out = NoPipe
IsInner(s) == ~IsSource(s) /\ ~IsSink(s)

\* Units of work of one step of an inner stage that sees r readable and w
\* writable elements.
StageCount(s, r, w) ==
  IF s.name = "fir_resampler"
  THEN InterpCount(r, w, s.d)
  ELSE Min(r \div InUnit(s), w \div OutUnit(s))

\* The stage's readable-input and writable-output preconditions.
StageEnabled(s) ==
  /\ IsInner(s)
  /\ readable(pipes[s.in]) >= InUnit(s)
  /\ writable(pipes[s.out]) >= OutUnit(s)

InScan == pc = "running" /\ cur >= 1 /\ cur <= Len(stages)

\* file_reader: commits the packets stdin has ready, as many as fit
SourceStep ==
  /\ InScan
  /\ IsSource(stages[cur])
  /\ LET s == stages[cur] IN
     \E k \in 0 .. Min(writable(pipes[s.out]), remaining) :
       /\ pipes' = [pipes EXCEPT ![s.out] = written(@, k)]
       /\ remaining' = remaining - k
       /\ progressed' = (progressed \/ k > 0)
  /\ cur' = cur + 1
  /\ UNCHANGED <<pc, cfg, argn, fseen, stages, agcset, shutdownReq, delivered,
                 sinkRefused, harnessVars>>

\* an inner stage: consumes k units of input, commits k units of output;
\* advancing past readable() or committing past writable() is fatal
InnerStep ==
  /\ InScan
  /\ IsInner(stages[cur])
  /\ LET s == stages[cur]
         k == StageCount(s, readable(pipes[s.in]), writable(pipes[s.out]))
         nin == k * InUnit(s)
         nout == k * OutUnit(s)
     IN  IF nin > readable(pipes[s.in]) \/ nout > writable(pipes[s.out])
         THEN /\ pc' = "fatal"
              /\ UNCHANGED <<pipes, progressed, cur>>
         ELSE /\ pipes' = [pipes EXCEPT ![s.in] = read(@, nin),
                                        ![s.out] = written(@, nout)]
              /\ progressed' = (progressed \/ k > 0)
              /\ cur' = cur + 1
              /\ pc' = pc
  /\ UNCHANGED <<cfg, argn, fseen, stages, agcset, shutdownReq, remaining,
                 delivered, sinkRefused, harnessVars>>

\* file_writer: stdout takes everything readable, or is not ready
SinkStep ==
  /\ InScan
  /\ IsSink(stages[cur])
  /\ LET s == stages[cur]
         r == readable(pipes[s.in])
     IN  \E n \in {0, r} :
           /\ pipes' = [pipes EXCEPT ![s.in] = read(@, n)]
           /\ delivered' = delivered + n
           /\ progressed' = (progressed \/ n > 0)
           /\ sinkRefused' = (sinkRefused \/ n < r)
  /\ cur' = cur + 1
  /\ UNCHANGED <<pc, cfg, argn, fseen, stages, agcset, shutdownReq, remaining,
                 harnessVars>>

\* a scheduler that only stops on an idle scan
StopNowIdleOnly == ~progressed

\* The scheduler's test at the end of a scan.
StopNowAlways == TRUE

StopNow == ~progressed \/ shutdownReq

EndScan ==
  /\ pc = "running"
  /\ cur = Len(stages) + 1
  /\ IF StopNow
     THEN pc' = "returned" /\ UNCHANGED <<cur, progressed>>
     ELSE pc' = pc /\ cur' = 1 /\ progressed' = FALSE
  /\ UNCHANGED <<cfg, argn, fseen, pipes, stages, agcset, shutdownReq,
                 remaining, delivered, sinkRefused, harnessVars>>

\* an external shutdown request, any time while the scheduler runs
RequestShutdown ==
  /\ pc = "running"
  /\ ~shutdownReq
  /\ shutdownReq' = TRUE
  /\ UNCHANGED <<pc, cfg, argn, fseen, pipes, stages, agcset, cur, progressed,
                 remaining, delivered, sinkRefused, harnessVars>>

-----------------------------------------------------------------------------
(* SpecMain: main() up to the call of sch.run() *)

NextMain ==
  \/ OptHelp
  \/ OptVerbose
  \/ OptDebug
  \/ OptFreq
  \/ OptRolloff
  \/ OptPower
  \/ OptAgc
  \/ OptBad
  \/ CallRun
  \/ Assemble
  \/ SchRun

SpecMain == MainInit /\ [][NextMain]_vars

-----------------------------------------------------------------------------
(* Spec: the assembled pipeline under the scheduler *)

\* Factors of the configurations run: small ones, 5 (which does not divide
\* the symbols of a packet, so that the decimator leaves a remainder), and
\* the first one larger than the baseband buffers.
RunFactors == (1 .. MaxFactor) \cup {5, BUF_BASEBAND + 1}

Init ==
  /\ pc = "sch_run"
  /\ \E i \in RunFactors, d \in RunFactors, a \in BOOLEAN :
       /\ cfg = [config EXCEPT !.interp = i, !.decim = d, !.agc = a]
       /\ fseen = << [n |-> 2, interp |-> i, decim |-> d] >>
  /\ argn = 0
  /\ pipes = AssemblePipes(cfg)
  /\ stages = AssembleStages(cfg)
  /\ agcset = AssembleAgc(cfg)
  /\ cur = 0
  /\ progressed = FALSE
  /\ shutdownReq = FALSE
  /\ remaining \in 0 .. MaxPackets
  /\ delivered = 0
  /\ sinkRefused = FALSE
  /\ HarnessIdle

Next ==
  \/ SchRun
  \/ SourceStep
  \/ InnerStep
  \/ SinkStep
  \/ EndScan
  \/ RequestShutdown
  \/ SchShutdown

Spec == Init /\ [][Next]_vars

FairSpec == Spec /\ WF_vars(Next)


-----------------------------------------------------------------------------
(* SpecInterp: interpolator<T> between two buffers *)

\* Sample values of the harness; 0 is what the interpolator stuffs.
Samples == {1, 2}

\* A storage slot that was never written (new T[size]).
Junk == 0 - 1

Feeds == UNION {[1 .. n -> Samples] : n \in 0 .. MaxInput}

storage(size) == [i \in 0 .. size - 1 |-> Junk]

\* The slot of the k-th element past the read cursor (rd()[k]) and past the
\* write cursor (wr()[k]) of a buffer.
rdSlot(b, k) == (b.total_read + k) % b.cap
wrSlot(b, k) == (b.total_written + k) % b.cap

\* line 32, right-hand side: *pin, the pin-th element past in.rd()
LoadInFirst(data, b, pin) == data[rdSlot(b, 0)]

LoadIn(data, b, pin) == data[rdSlot(b, pin)]

\* lines 32-33 without the inner loop: the d-1 slots after the sample keep
\* what they held
StoreOutNoZero(data, b, pout, x, d) ==
  [i \in DOMAIN data |-> IF i = wrSlot(b, pout) THEN x ELSE data[i]]

\* lines 32-33: *pout++ = x, then d-1 times *pout++ = 0, from the pout-th
\* element past out.wr()
StoreOut(data, b, pout, x, d) ==
  [i \in DOMAIN data |->
     IF i = wrSlot(b, pout) THEN x
     ELSE IF \E j \in 1 .. d - 1 : i = wrSlot(b, pout + j) THEN 0
     ELSE data[i]]

\* line 31: the loop leaves one element early
LoopDoneEarly(pin, count) == pin >= count - 1

\* line 31: pin < pend fails, the loop is left
LoopDone(pin, count) == pin >= count

\* line 36: the argument of out.written()
CommitAmountCount(count, d) == count

CommitAmount(count, d) == count * d

HInit ==
  /\ AppIdle
  /\ hd \in 1 .. MaxD
  /\ \E ci \in 1 .. MaxCap, co \in 1 .. MaxCap :
       /\ hin = pipebuf(ci)
       /\ hout = pipebuf(co)
       /\ hinData = storage(ci)
       /\ houtData = storage(co)
  /\ ipc = "idle"
  /\ loc = NoRun
  /\ feed \in Feeds
  /\ fed = 0
  /\ sunk = << >>
  /\ runNo = 1
  /\ firstOut = [out |-> << >>, done |-> FALSE, maxCount |-> 0]

\* the upstream writer stores n elements and commits them
Feed ==
  /\ ipc = "idle"
  /\ \E n \in 1 .. Min(writable(hin), Len(feed) - fed) :
       /\ hinData' = [i \in DOMAIN hinData |->
                        IF \E j \in 0 .. n - 1 : i = wrSlot(hin, j)
                        THEN feed[fed + 1 +
                                  CHOOSE j \in 0 .. n - 1 : i = wrSlot(hin, j)]
                        ELSE hinData[i]]
       /\ hin' = written(hin, n)
       /\ fed' = fed + n
  /\ UNCHANGED <<appVars, hd, hout, houtData, ipc, loc, feed, sunk, runNo,
                 firstOut>>

\* lines 29-30: count, pin, pend, pout
RunBegin ==
  /\ ipc = "idle"
  /\ LET count == InterpCount(readable(hin), writable(hout), hd) IN
       loc' = [count |-> count, pin |-> 0, pout |-> 0,
               obsR |-> readable(hin), obsW |-> writable(hout),
               maxCount |-> IF count > loc.maxCount THEN count
                            ELSE loc.maxCount]
  /\ ipc' = "loop"
  /\ UNCHANGED <<appVars, hd, hin, hout, hinData, houtData, feed, fed, sunk,
                 runNo, firstOut>>

\* lines 31-34: one iteration of the outer loop
RunLoop ==
  /\ ipc = "loop"
  /\ ~LoopDone(loc.pin, loc.count)
  /\ houtData' = StoreOut(houtData, hout, loc.pout,
                          LoadIn(hinData, hin, loc.pin), hd)
  /\ loc' = [loc EXCEPT !.pin = @ + 1, !.pout = @ + hd]
  /\ UNCHANGED <<appVars, hd, hin, hout, hinData, ipc, feed, fed, sunk, runNo,
                 firstOut>>

\* line 35: in.read(count); reading past readable() is fatal
RunRead ==
  /\ ipc = "loop"
  /\ LoopDone(loc.pin, loc.count)
  /\ IF loc.count > readable(hin)
     THEN ipc' = "bug" /\ hin' = hin
     ELSE ipc' = "read" /\ hin' = read(hin, loc.count)
  /\ UNCHANGED <<appVars, hd, hout, hinData, houtData, loc, feed, fed, sunk,
                 runNo, firstOut>>

\* line 36: out.written(count*d); committing past writable() is fatal
RunWritten ==
  /\ ipc = "read"
  /\ LET n == CommitAmount(loc.count, hd) IN
       IF n > writable(hout)
       THEN ipc' = "bug" /\ hout' = hout
       ELSE ipc' = "idle" /\ hout' = written(hout, n)
  /\ UNCHANGED <<appVars, hd, hin, hinData, houtData, loc, feed, fed, sunk,
                 runNo, firstOut>>

\* the downstream reader takes n elements and advances
Drain ==
  /\ ipc = "idle"
  /\ \E n \in 1 .. readable(hout) :
       /\ sunk' = sunk \o [j \in 1 .. n |-> houtData[rdSlot(hout, j - 1)]]
       /\ hout' = read(hout, n)
  /\ UNCHANGED <<appVars, hd, hin, hinData, houtData, ipc, loc, feed, fed,
                 runNo, firstOut>>

NextInterp ==
  \/ Feed
  \/ RunBegin
  \/ RunLoop
  \/ RunRead
  \/ RunWritten
  \/ Drain

SpecInterp == HInit /\ [][NextInterp]_vars

-----------------------------------------------------------------------------
(* SpecReplay: the harness run a second time on the same input *)

\* Nothing is left to do: the input is committed, the interpolator cannot
\* move and the output buffer is empty.
Quiescent ==
  /\ ipc = "idle"
  /\ fed = Len(feed)
  /\ readable(hout) = 0
  /\ (readable(hin) = 0 \/ writable(hout) < hd)

Restart ==
  /\ runNo = 1
  /\ ipc = "idle"
  /\ runNo' = 2
  /\ firstOut' = [out |-> sunk, done |-> Quiescent, maxCount |-> loc.maxCount]
  /\ hin' = pipebuf(hin.cap)
  /\ hout' = pipebuf(hout.cap)
  /\ hinData' = storage(hin.cap)
  /\ houtData' = storage(hout.cap)
  /\ loc' = NoRun
  /\ fed' = 0
  /\ sunk' = << >>
  /\ UNCHANGED <<appVars, hd, ipc, feed>>

NextReplay == NextInterp \/ Restart

SpecReplay == HInit /\ [][NextReplay]_vars


-----------------------------------------------------------------------------
(* Properties of the interpolator (SpecInterp, SpecReplay) *)

BufferInBounds(b) ==
  /\ readable(b) >= 0
  /\ writable(b) >= 0
  /\ readable(b) + writable(b) <= b.cap

C1_Inv ==
  /\ BufferInBounds(hin)
  /\ BufferInBounds(hout)
  /\ ipc # "bug"
  /\ loc.count = Min(loc.obsR, loc.obsW \div hd)
  /\ loc.count <= loc.obsR
  /\ loc.count * hd <= loc.obsW

C1_Step ==
  /\ hin'.total_read - hin.total_read <= loc.obsR
  /\ hout'.total_written - hout.total_written <= loc.obsW
  /\ ipc = "read" /\ ipc' = "idle" =>
       hout'.total_written - hout.total_written = loc.count * hd

\* C1: backpressure safety.  Both buffers of the interpolator, of any
\* capacity, always have readable() >= 0, writable() >= 0 and
\* readable() + writable() <= capacity; no call of interpolator::run breaks
\* the buffer contract; the count of a call is min(readable, writable/d) of
\* the readable() and writable() it observed, so that the call advances its
\* input by at most that readable() and commits count*d, at most that
\* writable().
C1_BackpressureSafety == [] C1_Inv /\ [][C1_Step]_vars

\* C1's case: a call that the room in the output limited (it consumed less
\* than was readable) has committed its output.
C1_Witness ==
  /\ ipc = "idle"
  /\ hd >= 2
  /\ loc.count >= 1
  /\ loc.count < loc.obsR
  /\ hout.total_written >= loc.count * hd

\* C2: exact rate ratio.  Between calls of interpolator::run the total
\* committed to the output is d times the total advanced on the input; inside
\* a call, after in.read(count) and before out.written(), exactly count*d
\* are still to be committed.
C2_ExactRatio ==
  /\ ipc \in {"idle", "loop"} => hout.total_written = hd * hin.total_read
  /\ ipc = "read" => hout.total_written + hd * loc.count = hd * hin.total_read
  /\ ipc # "bug"

\* C2's case: two calls' worth of input went through with d >= 2.
C2_Witness ==
  /\ ipc = "idle"
  /\ hd >= 2
  /\ hin.total_read >= 2
  /\ hout.total_written = hd * hin.total_read

IsPrefix(s, t) ==
  /\ Len(s) <= Len(t)
  /\ \A i \in 1 .. Len(s) : s[i] = t[i]

\* What the output buffer holds, oldest first.
Queued(data, b) == [j \in 1 .. readable(b) |-> data[rdSlot(b, j - 1)]]

\* Everything the interpolator committed so far, in the order its reader
\* gets it.
OutStream == sunk \o Queued(houtData, hout)

C4_Inv ==
  /\ Queued(hinData, hin) =
       [j \in 1 .. readable(hin) |-> feed[hin.total_read + j]]
  /\ runNo = 2 =>
       /\ IsPrefix(sunk, firstOut.out) \/ IsPrefix(firstOut.out, sunk)
       /\ firstOut.done /\ Quiescent => sunk = firstOut.out

C4_Step == runNo' = runNo => IsPrefix(OutStream, OutStream')

\* C4: determinism and order preservation.  A second run on the same input,
\* with its own timing of the writer, of the interpolator's calls and of the
\* reader, delivers a sequence that agrees with the first run's as far as
\* both go, and the same sequence when both ran to the end; the input buffer
\* hands over the input in the order it was committed, and what was
\* committed to the output is delivered in that order (the delivered and
\* queued output only grows at its end).
C4_Deterministic == [] C4_Inv /\ [][C4_Step]_vars

\* C4's case: both runs ran to the end, one with a call that took two
\* elements at once, the other taking one element per call.
C4_Witness ==
  /\ runNo = 2
  /\ firstOut.done
  /\ Quiescent
  /\ firstOut.maxCount = 2
  /\ loc.maxCount = 1
  /\ Len(sunk) >= 4
  /\ sunk = firstOut.out


-----------------------------------------------------------------------------
(* Properties of the application (SpecMain, Spec) *)

Assembled == pc \in {"sch_run", "running", "returned", "done"}

StageSet == {stages[i] : i \in 1 .. Len(stages)}

WritersOf(b) == {i \in 1 .. Len(stages) : stages[i].out = b}
ReadersOf(b) == {i \in 1 .. Len(stages) : stages[i].in = b}

\* The unit the reader of buffer b takes at once, and the unit its writer
\* commits at once.
ReaderUnit(b) == InUnit(stages[CHOOSE i \in ReadersOf(b) : TRUE])
WriterUnit(b) == OutUnit(stages[CHOOSE i \in WritersOf(b) : TRUE])

\* sch.run() returned and no buffer holds a unit of its reader.
Drained ==
  /\ pc \in {"returned", "done"}
  /\ \A b \in DOMAIN pipes : readable(pipes[b]) < ReaderUnit(b)

\* C3: resampling ratio.  When the scheduler has returned with the pipeline
\* drained, the samples delivered to the sink are floor(N*I/D) for the N
\* symbols the mapper committed, I = cfg.interp and D = cfg.decim.
C3_OutputCount ==
  Drained =>
    delivered =
      (pipes["IQ symbols"].total_written * cfg.interp) \div cfg.decim

\* C3's case: a packet's 1632 symbols went through interpolation by 2 and
\* decimation by 5, which leaves a remainder: 652 samples and 4 left over.
C3_Witness ==
  /\ Drained
  /\ cfg.interp = 2
  /\ cfg.decim = 5
  /\ pipes["IQ symbols"].total_written = SIZE_RSPACKET * SYMBOLS_PER_BYTE
  /\ delivered = 652
  /\ readable(pipes["interpolated"]) = 4

\* C5: a configuration error (interp <= 0, decim <= 0, roll-off outside
\* (0,1]) never gets as far as sch.run().
C5_ConfigErrorsAbort == pc = "running" => ValidConfig(cfg)

\* C6: when sch.run() has returned after the input was exhausted, with a
\* sink that took every write and no shutdown request, no error occurred and
\* every buffer holds less than its reader's unit.
C6_DrainedAtReturn ==
  /\ pc # "fatal"
  /\ (pc \in {"returned", "done"} /\ remaining = 0 /\ ~sinkRefused
        /\ ~shutdownReq)
       => \A b \in DOMAIN pipes : readable(pipes[b]) < ReaderUnit(b)

C7_Stop ==
  pc = "running" /\ pc' # "running" =>
    /\ pc' = "returned"
    /\ cur = Len(stages) + 1
    /\ ~progressed \/ shutdownReq
    /\ ~shutdownReq => \A i \in 1 .. Len(stages) : ~StageEnabled(stages[i])

C7_IdleScanStops ==
  (pc = "running" /\ cur = Len(stages) + 1 /\ ~progressed
     /\ <<pc, cur>>' # <<pc, cur>>)
    => pc' = "returned"

\* C7: scheduler stop condition.  sch.run() is left only at the end of a
\* complete scan, and only when no stage of that scan made progress or a
\* shutdown was requested; when it is left without a shutdown request no
\* stage has both its readable-input and its writable-output precondition;
\* and after a scan in which no stage made progress the scheduler's next
\* step is to stop, never another scan.
C7_StopCondition == [][C7_Stop]_vars /\ [][C7_IdleScanStops]_vars

\* C7's case: the scheduler stopped by itself after scans that moved data to
\* the sink.
C7_Witness ==
  /\ pc = "returned"
  /\ ~shutdownReq
  /\ ~progressed
  /\ delivered > 0

C8_Inv ==
  /\ pc # "fatal"
  /\ \A b \in DOMAIN pipes :
       /\ readable(pipes[b]) >= 0
       /\ readable(pipes[b]) <= pipes[b].cap
       /\ pipes[b].total_written = pipes[b].total_read + readable(pipes[b])
  /\ Assembled => delivered = pipes[tail(cfg)].total_read

C8_Step ==
  \A b \in DOMAIN pipes :
    pipes'[b].total_written > pipes[b].total_written =>
      /\ writable(pipes[b]) >= WriterUnit(b)
      /\ pipes'[b].total_written - pipes[b].total_written
           <= writable(pipes[b])

\* C8: sink backpressure.  Whatever the sink refuses, no buffer ever queues
\* more than its capacity, every element committed to a buffer is either
\* still queued or was advanced over by its reader (none is overwritten or
\* dropped), the samples delivered are those the sink advanced over, a stage
\* commits only when its output buffer has room for its output unit and
\* never more than the room, no stage fails, and a scan without progress
\* makes the scheduler stop.
C8_Backpressure ==
  [] C8_Inv /\ [][C8_Step]_vars /\ [][C7_IdleScanStops]_vars

\* C8's case: the sink took nothing; the buffers filled from the tail (the
\* resampled buffer is full, the interpolated buffer has no room for one
\* more unit, symbols wait before the resampler) and the scheduler stopped.
C8_Witness ==
  /\ pc = "returned"
  /\ ~shutdownReq
  /\ delivered = 0
  /\ remaining = 0
  /\ writable(pipes["resampled"]) = 0
  /\ writable(pipes["interpolated"]) < cfg.interp
  /\ readable(pipes["IQ symbols"]) > 0

\* C9: single writer, single reader.  Once assembled, every buffer has
\* exactly one writer stage and one reader stage, every stage's buffers
\* exist, the AGC buffer exists exactly when cfg.agc, and the resampled
\* buffer is read by the AGC stage when cfg.agc and by the sink otherwise,
\* the sink then reading the AGC buffer.
C9_SingleWriterReader ==
  Assembled =>
    /\ \A b \in DOMAIN pipes :
         Cardinality(WritersOf(b)) = 1 /\ Cardinality(ReadersOf(b)) = 1
    /\ \A s \in StageSet :
         /\ s.in # NoPipe => s.in \in DOMAIN pipes
         /\ s.out # NoPipe => s.out \in DOMAIN pipes
    /\ ("AGC" \in DOMAIN pipes) = cfg.agc
    /\ \A i \in ReadersOf("resampled") :
         stages[i].name = IF cfg.agc THEN "simple_agc" ELSE "file_writer"
    /\ cfg.agc => \A i \in ReadersOf("AGC") : stages[i].name = "file_writer"

\* C9's case: a pipeline assembled with --agc.
C9_Witness ==
  /\ pc = "sch_run"
  /\ cfg.agc
  /\ "AGC" \in DOMAIN pipes
  /\ Len(stages) = 10

\* C10: once assembled from a valid configuration, every buffer has room for
\* one unit of its writer and holds one unit of its reader.
C10_CapacitiesFit ==
  (Assembled /\ ValidConfig(cfg)) =>
    \A b \in DOMAIN pipes :
      /\ pipes[b].cap >= WriterUnit(b)
      /\ pipes[b].cap >= ReaderUnit(b)

-----------------------------------------------------------------------------
(* Further properties of the interpolator (SpecInterp) *)

\* A step of a call of interpolator::run, from its entry to its return.
InCall == ipc # "idle" \/ ipc' # "idle"

C11_Step ==
  (InCall /\ (loc'.obsR = 0 \/ loc'.obsW < hd)) =>
    /\ loc'.count = 0
    /\ hin'.total_read = hin.total_read
    /\ readable(hin') = readable(hin)
    /\ hout'.total_written = hout.total_written
    /\ readable(hout') = readable(hout)
    /\ hout'.total_read = hout.total_read
    /\ Queued(houtData', hout') = Queued(houtData, hout)
    /\ ipc' # "bug"

\* C11: a call without progress changes nothing.  In every step of a call
\* of interpolator::run that observed readable() = 0 or writable() < d, the
\* count is 0, the input's read cursor and readable() and the output's write
\* cursor and readable() stay as they were, and so does every element
\* committed to the output.
C11_NoProgressFrame == [][C11_Step]_vars

\* C11's case: a call that found input but less than d free slots behind
\* committed output has returned.
C11_Witness ==
  /\ ipc = "idle"
  /\ hd >= 2
  /\ loc.obsR >= 1
  /\ loc.obsW >= 1
  /\ loc.obsW < hd
  /\ loc.count = 0
  /\ readable(hout) >= 1
  /\ writable(hout) = loc.obsW

\* x_1 .. x_n with d-1 zeros after each element
ZeroStuff(x, d) ==
  [k \in 1 .. Len(x) * d |->
     IF (k - 1) % d = 0 THEN x[((k - 1) \div d) + 1] ELSE 0]

\* The input consumed by the calls that have committed their output.
Consumed ==
  SubSeq(feed, 1, IF ipc = "read" THEN hin.total_read - loc.count
                  ELSE hin.total_read)

\* C12: zero-stuffing content.  For every d >= 1 and every input, what the
\* calls of interpolator::run have committed so far is the consumed input
\* x_0, x_1, ... with y[k*d] = x_k and y[k*d + j] = 0 for 0 < j < d; for
\* d = 1 it is the consumed input itself.
C12_ZeroStuffing ==
  /\ ipc # "bug"
  /\ Len(OutStream) = hd * Len(Consumed)
  /\ \A k \in 0 .. Len(Consumed) - 1 :
       /\ OutStream[k * hd + 1] = Consumed[k + 1]
       /\ \A j \in 1 .. hd - 1 : OutStream[k * hd + j + 1] = 0
  /\ hd = 1 => OutStream = Consumed

\* C12's case: two different samples went through with d = 2 and were
\* delivered.
C12_Witness ==
  /\ ipc = "idle"
  /\ hd = 2
  /\ sunk = <<1, 0, 2, 0>>

-----------------------------------------------------------------------------
(* Further properties of the application (Spec, SpecMain) *)

\* What the stages of the pipeline act on.
StageState == <<pipes, remaining, delivered, sinkRefused>>

C13_Step ==
  /\ (pc = "running" /\ shutdownReq) =>
       /\ shutdownReq'
       /\ pc' \in {"running", "returned"}
       /\ pc' = "running" => cur <= Len(stages) /\ cur' = cur + 1
       /\ pc' = "returned" => cur = Len(stages) + 1 /\ StageState' = StageState
  /\ pc \in {"returned", "done"} =>
       /\ pc' \in {"returned", "done"}
       /\ StageState' = StageState
  /\ StageState' # StageState => InScan /\ cur' = cur + 1

\* C13: cancellation at round granularity.  Once a shutdown was requested,
\* the scheduler runs the remaining stages of the scan in progress, one whole
\* invocation after the other, and returns at the end of that scan without
\* starting another; after sch.run() has returned and after sch.shutdown()
\* no stage runs, and the stages' state only ever changes by one whole stage
\* invocation inside a scan.
C13_RoundCancellation == [][C13_Step]_vars

\* C13's case: a shutdown requested in a scan that made progress ended the
\* run with a stage still able to run.
C13_Witness ==
  /\ pc = "done"
  /\ shutdownReq
  /\ progressed
  /\ \E i \in 1 .. Len(stages) : IsInner(stages[i]) /\ StageEnabled(stages[i])

\* The chain in source-to-sink order, by the library's class names.
ChainOrder(agc) ==
  << "file_reader", "randomizer", "rs_encoder", "interleaver", "dvb_convol",
     "cstln_transmitter", "fir_resampler", "decimator" >>
  \o (IF agc THEN << "simple_agc" >> ELSE << >>)
  \o << "file_writer" >>

\* C14: fixed linear topology in source-to-sink order.  The stages of an
\* assembled pipeline are, in construction (and so scan) order: source,
\* randomizer, RS encoder, interleaver, convolutional encoder, constellation
\* mapper, FIR resampler, decimator, the AGC exactly when cfg.agc, sink; the
\* first reads no buffer, the last writes none, and every other stage reads
\* the buffer written by the stage constructed immediately before it.
C14_LinearTopology ==
  Assembled =>
    /\ [i \in 1 .. Len(stages) |-> stages[i].name] = ChainOrder(cfg.agc)
    /\ stages[1].in = NoPipe
    /\ stages[Len(stages)].out = NoPipe
    /\ \A i \in 2 .. Len(stages) :
         /\ stages[i].in # NoPipe
         /\ stages[i].in = stages[i - 1].out
         /\ stages[i].in \in DOMAIN pipes

\* C14's case: a pipeline assembled with --agc, where the AGC stage follows
\* the decimator and the sink follows the AGC stage.
C14_Witness ==
  /\ pc = "sch_run"
  /\ cfg.agc
  /\ Len(stages) = 10
  /\ stages[9].name = "simple_agc"
  /\ stages[9].in = stages[8].out
  /\ stages[10].in = "AGC"

-----------------------------------------------------------------------------
(* Publication and conservation in the interpolator (SpecInterp) *)

\* Values a fully written output element can have.
Written == Samples \cup {0}

C15_Inv ==
  /\ ipc # "bug"
  /\ ipc = "read" => loc.pin = loc.count /\ loc.pout = loc.count * hd
  /\ \A j \in 0 .. readable(hout) - 1 : houtData[rdSlot(hout, j)] \in Written
  /\ \A j \in 0 .. readable(hin) - 1 : hinData[rdSlot(hin, j)] \in Samples

C15_Step ==
  /\ hin'.total_read # hin.total_read =>
       /\ hin'.total_read = hin.total_read + loc.count
       /\ loc.pin = loc.count
       /\ \A k \in 0 .. loc.count - 1 :
            houtData[wrSlot(hout, k * hd)] = hinData[rdSlot(hin, k)]
  /\ hout'.total_written # hout.total_written =>
       /\ hout'.total_written = hout.total_written + loc.count * hd
       /\ loc.pout = loc.count * hd
       /\ houtData' = houtData
       /\ \A j \in 0 .. loc.count * hd - 1 :
            houtData[wrSlot(hout, j)] \in Written
  /\ houtData' # houtData =>
       /\ hout' = hout
       /\ hin' = hin
       /\ Queued(houtData', hout) = Queued(houtData, hout)

\* C15: commit is the only publication point.  Inside a call of
\* interpolator::run, every store to the output happens with both buffers'
\* cursors unmoved and touches no committed element; in.read(count) is
\* called with all count elements loaded and out.written(count*d) with all
\* count*d elements stored; so what the downstream reader can read is never
\* an unwritten element, and what the upstream writer regains was copied out.
C15_CommitPublishes == [] C15_Inv /\ [][C15_Step]_vars

\* C15's case: between in.read(2) and out.written(4) the four stored
\* elements are in the output's storage and none of them is readable yet.
C15_Witness ==
  /\ ipc = "read"
  /\ hd = 2
  /\ loc.count = 2
  /\ readable(hout) = 0
  /\ houtData[wrSlot(hout, 0)] \in Samples
  /\ houtData[wrSlot(hout, 3)] = 0

-----------------------------------------------------------------------------
(* Configuration of the AGC and of the resampling ratio (SpecMain) *)

\* bw * interp = 0.001 * decim for bw = bw_num / bw_den; a quotient by 0 is
\* no number that satisfies it (0.001 * decim / 0 is an infinity or a NaN,
\* and times 0 a NaN).  The factor 1000 is cancelled where it divides
\* bw_den, which keeps the products small.
BwTimesInterpFixed(a, c) ==
  /\ a.bw_den # 0
  /\ IF a.bw_den % 1000 = 0
     THEN a.bw_num * c.interp = c.decim * (a.bw_den \div 1000)
     ELSE a.bw_num * c.interp * 1000 = c.decim * a.bw_den

\* C16: the AGC bandwidth follows the resampling ratio.  In every pipeline
\* assembled with cfg.agc the AGC stage has one setting, made before the
\* scheduler starts, and its bandwidth satisfies bw * interp = 0.001 * decim.
C16_AgcBandwidth ==
  (Assembled /\ cfg.agc) =>
    /\ Cardinality(agcset) = 1
    /\ \A a \in agcset : BwTimesInterpFixed(a, cfg)

-----------------------------------------------------------------------------
(* Conservation and progress in the interpolator (SpecInterp) *)

\* Every d-th element of y, from the first.
Originals(y, d) == [k \in 1 .. Len(y) \div d |-> y[(k - 1) * d + 1]]

\* What a call has stored and not yet committed, after in.read(count).
Pending ==
  IF ipc = "read"
  THEN [j \in 1 .. loc.count * hd |-> houtData[wrSlot(hout, j - 1)]]
  ELSE << >>

\* C17: element conservation.  For both buffers of the interpolator, in
\* every reachable state, the total committed by the writer is the total
\* advanced by the reader plus readable(); and no element is read twice,
\* skipped or lost: the elements that went through the interpolator
\* (delivered, queued in the output, or stored by the call in progress),
\* followed by those queued in the input and by those not yet written, are
\* the input sequence.
C17_Conservation ==
  /\ ipc # "bug"
  /\ hin.total_written = hin.total_read + readable(hin)
  /\ hout.total_written = hout.total_read + readable(hout)
  /\ fed = hin.total_written
  /\ Len(sunk) = hout.total_read
  /\ Originals(OutStream \o Pending, hd) \o Queued(hinData, hin)
       \o SubSeq(feed, fed + 1, Len(feed)) = feed

\* C17's case: of two input elements one went through with d = 2 (one of its
\* two output elements is delivered, the other queued) and one is queued in
\* the input.
C17_Witness ==
  /\ ipc = "idle"
  /\ hd = 2
  /\ hin.total_read = 1
  /\ readable(hin) = 1
  /\ Len(sunk) = 1
  /\ readable(hout) = 1
  /\ feed[1] # feed[2]

\* The call observed what it needs to make progress.
CallEnabled == loc.obsR >= 1 /\ loc.obsW >= hd

C18_Inv ==
  /\ ipc # "bug"
  /\ ipc # "idle" =>
       /\ CallEnabled => loc.count >= 1
       /\ CallEnabled =>
            loc.count = (IF loc.obsR <= loc.obsW \div hd THEN loc.obsR
                         ELSE loc.obsW \div hd)
       /\ loc.count = 0 => loc.obsR = 0 \/ loc.obsW < hd

C18_Step ==
  /\ (ipc = "loop" /\ ipc' = "read") =>
       /\ hin'.total_read = hin.total_read + loc.count
       /\ readable(hin) = loc.obsR
  /\ (ipc = "read" /\ ipc' = "idle") =>
       /\ hout'.total_written = hout.total_written + loc.count * hd
       /\ CallEnabled =>
            \/ readable(hin') = 0
            \/ writable(hout') < hd

\* C18: greedy progress of the interpolator.  A call of interpolator::run
\* that finds readable() >= 1 and writable() >= d consumes exactly
\* min(readable, floor(writable/d)) >= 1 input elements and commits d times
\* as many, which leaves no input or less than d free slots; a call makes no
\* progress only when it found readable() = 0 or writable() < d.
C18_GreedyProgress == [] C18_Inv /\ [][C18_Step]_vars

\* C18's case: a call that found two elements and room for both took both.
C18_Witness ==
  /\ ipc = "idle"
  /\ hd >= 2
  /\ loc.obsR = 2
  /\ loc.count = 2
  /\ loc.obsW >= 2 * hd
  /\ readable(hin) = 0
  /\ readable(hout) = 2 * hd

\* The last -f option seen, when there was one.
LastF == fseen[Len(fseen)]

C19_Inv ==
  /\ fseen = << >> => cfg.interp = config.interp /\ cfg.decim = config.decim
  /\ config.interp = 2 /\ config.decim = 1
  /\ (fseen # << >> /\ LastF.n >= 1) =>
       /\ cfg.interp = LastF.interp
       /\ cfg.decim = (IF LastF.n >= 2 THEN LastF.decim ELSE 1)
  /\ (fseen # << >> /\ LastF.n < 1) =>
       /\ pc = "usage_err"
       /\ pipes = << >>
       /\ stages = << >>
  /\ pc = "usage_err" => pipes = << >> /\ stages = << >>
  /\ Assembled =>
       /\ \A i \in 1 .. Len(fseen) : fseen[i].n >= 1
       /\ \A s \in StageSet :
            /\ s.name = "fir_resampler" => s.d = cfg.interp
            /\ s.name = "decimator" => s.d = cfg.decim

C19_Step == pc = "usage_err" => pc' = "usage_err"

\* C19: the resampling configuration after option parsing.  With no -f
\* option the configuration has interpolation 2 and decimation 1; after any
\* sequence of -f options it has the interpolation of the last one and that
\* one's decimation, 1 when it gave only INTERP, whatever the earlier ones
\* gave; the pipeline is assembled with these two factors; and a -f argument
\* from which no integer is parsed ends in the usage error, with nothing
\* assembled then or later.
C19_LastFreqWins == [] C19_Inv /\ [][C19_Step]_vars

\* C19's case: -f I/D with D = 2 followed by -f I, and the pipeline assembled
\* with decimation 1.
C19_Witness ==
  /\ pc = "sch_run"
  /\ Len(fseen) = 2
  /\ fseen[1].n = 2
  /\ fseen[1].decim = 2
  /\ fseen[2].n = 1
  /\ fseen[2].interp = 2
  /\ cfg.decim = 1
  /\ \E s \in StageSet : s.name = "decimator" /\ s.d = 1

=============================================================================
